---- MODULE Spec2Model ----
(***************************************************************************)
(* Verification model of gogetbfmetadata: the Bio-Formats text report      *)
(* parser and series grouper (part_000, main.go), the tool invokers and    *)
(* the XML path (bfmetadata/metadata.go, part_003, part_001) and the       *)
(* sample annotation store with the directory batch (part_001).            *)
(***************************************************************************)
EXTENDS Integers, Sequences, FiniteSets, TLC

VARIABLES
    prog,         \* which main is running: "series" (part_000) or "thumb" (main.go)
    pc,           \* position of that main
    declared,     \* what the tool printed as "Series count = n" (NoCount: no such line)
    blocks,       \* the per-series blocks of the report, as the tool meant them
    missing,      \* the <<series, field>> lines the tool left out of the report
    outputStr,    \* the report text: the lines in document order
    seriesInfos,  \* the records readImageMetadata returned
    readErr,      \* the error readImageMetadata returned
    printed,      \* what printSeriesGroups wrote
    toolFn,       \* the invoker that is called
    toolPc,       \* "call" before it ran, "returned" after
    exitCode,     \* exit code of the subprocess
    stdout,       \* what the subprocess wrote to stdout
    retOutput,    \* the string the invoker returned
    retErr,       \* the error the invoker returned ("nil": none)
    xmlInput,     \* the text handed to the XML decoder (NotDecoded: none)
    retMetadata,  \* whether bfReadImageMetadata returned a Metadata value
    storePc,      \* position of the batch program: main, the gate, the loop, the end
    numChannels,  \* channel count of the directory's first image
    fileExisted,  \* os.Stat found inputSampleInfo.yaml when the batch started
    sampleFile,   \* content of inputSampleInfo.yaml (NoFile: it does not exist)
    edited,       \* the operator changed the file while the gate was waiting
    answer,       \* what waitForUserConfirmation returned
    sampleInfo,   \* the set initializeSampleInfo returned
    mode,         \* -path names a directory ("dir") or one image ("file")
    toolAvailable,\* the java executable can be started
    images,       \* per matching file, in directory order: what the tool makes of it
    next,         \* index of the file processDirectory handles next
    spawned,      \* how many java subprocesses have been started
    docs,         \* per file: the content of its _sampleInfo.yaml (NoFile: none)
    walkPc,       \* GetMetadata: "call" before it ran, "returned" after
    rootNodes,    \* root.Nodes: the elements below the root of the OME document
    visited,      \* the paths of the nodes handed to processFunc, in call order
    instr,        \* GetMetadata's instr
    img,          \* GetMetadata's img
    failures,     \* how many "Error unmarshalling" lines were printed
    walkErr,      \* the error GetMetadata returned ("nil": none)
    gatePc,       \* waitForUserConfirmation: "prompt" in its loop, "returned" after
    stdin,        \* what the next calls of reader.ReadString will return, in order
    confirmed,    \* what waitForUserConfirmation returned ("none": nothing yet)
    prompts       \* how many times the question was printed

textVars == <<prog, pc, declared, blocks, missing, outputStr, seriesInfos, readErr, printed>>

toolVars == <<toolFn, toolPc, exitCode, stdout, retOutput, retErr, xmlInput, retMetadata>>

storeVars == <<storePc, numChannels, fileExisted, sampleFile, edited, answer, sampleInfo,
               mode, toolAvailable, images, next, spawned, docs>>

walkVars == <<walkPc, rootNodes, visited, instr, img, failures, walkErr>>

gateVars == <<gatePc, stdin, confirmed, prompts>>

notTextVars == <<toolVars, storeVars, walkVars, gateVars>>
notToolVars == <<textVars, storeVars, walkVars, gateVars>>
notStoreVars == <<textVars, toolVars, walkVars, gateVars>>
notWalkVars == <<textVars, toolVars, storeVars, gateVars>>
notGateVars == <<textVars, toolVars, storeVars, walkVars>>

vars == <<textVars, toolVars, storeVars, walkVars, gateVars>>

-----------------------------------------------------------------------------
(* Bounds and input domains *)

MaxSeries == 2
MaxMissing == 1

NoCount == -1

\* inputSampleInfo.yaml does not exist, holds text that is not YAML, holds an
\* empty document; a nil *SampleInfo
NoFile == [file |-> "absent"]
Malformed == [file |-> "malformed yaml"]
EmptyDocument == [file |-> "empty yaml"]
Nil == [pointer |-> "nil"]

DimFields == {"SizeT", "SizeC", "SizeZ", "Width", "Height"}
Fields == DimFields \cup {"Thumbnail"}

\* the order in which the tool prints the fields of one series
FieldOrder == <<"Thumbnail", "Width", "Height", "SizeZ", "SizeT", "SizeC">>

\* the dimensional values a series of the report may state
SeriesProfiles ==
    { [SizeT |-> 1, SizeC |-> 2, SizeZ |-> 5, Width |-> 512, Height |-> 512],
      [SizeT |-> 1, SizeC |-> 2, SizeZ |-> 1, Width |-> 64,  Height |-> 32],
      [SizeT |-> 2, SizeC |-> 1, SizeZ |-> 1, Width |-> 256, Height |-> 128] }

SeriesBlocks ==
    { [f \in Fields |-> IF f = "Thumbnail" THEN th ELSE p[f]] :
        p \in SeriesProfiles, th \in {"true", "false"} }

SeqsUpTo(S, n) == UNION { [1..k -> S] : k \in 0..n }

RECURSIVE SubsetsUpTo(_, _)
SubsetsUpTo(S, n) ==
    IF n = 0 THEN { {} }
    ELSE LET smaller == SubsetsUpTo(S, n - 1)
         IN  smaller \cup { s \cup {x} : s \in smaller, x \in S }

-----------------------------------------------------------------------------
(* The report text *)

\* the lines of series k that the tool printed
BlockLines(bs, miss, k) ==
    LET present == SelectSeq(FieldOrder, LAMBDA f : <<k, f>> \notin miss)
    IN  [j \in 1..Len(present) |-> <<present[j], bs[k][present[j]]>>]

RECURSIVE AllBlockLines(_, _, _)
AllBlockLines(bs, miss, k) ==
    IF k > Len(bs) THEN <<>>
    ELSE BlockLines(bs, miss, k) \o AllBlockLines(bs, miss, k + 1)

ReportText(decl, bs, miss) ==
    (IF decl = NoCount THEN <<>> ELSE << <<"Series count", decl>> >>)
        \o AllBlockLines(bs, miss, 1)

\* regexp.FindAllStringSubmatch(outputStr, -1): the captured group of every
\* match of the field's pattern, in document order
FindAllStringSubmatch(text, key) ==
    LET hits == SelectSeq(text, LAMBDA t : t[1] = key)
    IN  [j \in 1..Len(hits) |-> hits[j][2]]

\* regexp.FindStringSubmatch: <<whole match, group>> of the first match, or nil
FindStringSubmatch(text, key) ==
    LET hits == SelectSeq(text, LAMBDA t : t[1] = key)
    IN  IF Len(hits) = 0 THEN <<>> ELSE <<key, hits[1][2]>>

\* mutant: the count defaults to 1 when the report has no series count line
SeriesCountOf_DefaultOne(seriesMatches) ==
    IF Len(seriesMatches) > 1 THEN seriesMatches[2] ELSE 1

\* seriesCount := 0; if len(seriesMatches) > 1 { seriesCount, _ = Atoi(...) }
SeriesCountOf(seriesMatches) ==
    IF Len(seriesMatches) > 1 THEN seriesMatches[2] ELSE 0

\* mutant: the match after the series' own one is taken
MatchOrZero_NextMatch(matches, i) ==
    IF i + 1 < Len(matches) THEN matches[i + 2] ELSE 0

\* x := 0; if i < len(matches) && len(matches[i]) > 1 { x, _ = Atoi(matches[i][1]) }
MatchOrZero(matches, i) ==
    IF i < Len(matches) THEN matches[i + 1] ELSE 0

\* mutant: the value of the flag is not looked at
IsNonThumbnail_AnyFlag(thumbnailMatches, i) ==
    i < Len(thumbnailMatches)

\* i < len(thumbnailMatches) && ... && thumbnailMatches[i][1] == "false"
IsNonThumbnail(thumbnailMatches, i) ==
    i < Len(thumbnailMatches) /\ thumbnailMatches[i + 1] = "false"

-----------------------------------------------------------------------------
(* part_000: readImageMetadata, the loop body and the whole loop *)

SeriesInfoAt(text, i) ==
    [Timepoints |-> MatchOrZero(FindAllStringSubmatch(text, "SizeT"), i),
     Channels   |-> MatchOrZero(FindAllStringSubmatch(text, "SizeC"), i),
     ZStacks    |-> MatchOrZero(FindAllStringSubmatch(text, "SizeZ"), i)]

ParseSeries(text) ==
    LET seriesCount == SeriesCountOf(FindStringSubmatch(text, "Series count"))
    IN  [j \in 1..seriesCount |-> SeriesInfoAt(text, j - 1)]

(* main.go: readImageMetadata with the thumbnail filter *)

ThumbSeriesInfoAt(text, i) ==
    [T |-> MatchOrZero(FindAllStringSubmatch(text, "SizeT"), i),
     C |-> MatchOrZero(FindAllStringSubmatch(text, "SizeC"), i),
     Z |-> MatchOrZero(FindAllStringSubmatch(text, "SizeZ"), i),
     X |-> MatchOrZero(FindAllStringSubmatch(text, "Width"), i),
     Y |-> MatchOrZero(FindAllStringSubmatch(text, "Height"), i)]

RECURSIVE ParseThumbFrom(_, _, _)
ParseThumbFrom(text, i, seriesCount) ==
    IF i >= seriesCount THEN <<>>
    ELSE (IF IsNonThumbnail(FindAllStringSubmatch(text, "Thumbnail"), i)
          THEN <<ThumbSeriesInfoAt(text, i)>> ELSE <<>>)
         \o ParseThumbFrom(text, i + 1, seriesCount)

ParseThumb(text) ==
    ParseThumbFrom(text, 0, SeriesCountOf(FindStringSubmatch(text, "Series count")))

-----------------------------------------------------------------------------
(* part_000: printSeriesGroups *)

\* mutant: a single record counts as no series
NoSeries_UpToOne(infos) == Len(infos) <= 1

\* n == 0
NoSeries(infos) == Len(infos) = 0

\* mutant: records are compared by their timepoints only
GroupEnds_ByTimepoints(infos, groupStart, i) ==
    i = Len(infos) \/ infos[i + 1].Timepoints # infos[groupStart + 1].Timepoints

\* i == n || seriesInfos[i] != seriesInfos[groupStart]
GroupEnds(infos, groupStart, i) ==
    i = Len(infos) \/ infos[i + 1] # infos[groupStart + 1]

\* the groups printed by the loop from position i on, groupStart being the
\* start of the group that is open at i
RECURSIVE GroupsFrom(_, _, _)
GroupsFrom(infos, groupStart, i) ==
    IF i > Len(infos) THEN <<>>
    ELSE IF GroupEnds(infos, groupStart, i)
         THEN << <<groupStart, i - 1, infos[groupStart + 1]>> >>
                 \o GroupsFrom(infos, i, i + 1)
         ELSE GroupsFrom(infos, groupStart, i + 1)

SeriesGroups(infos) == GroupsFrom(infos, 0, 1)

PrintedFor(infos) ==
    IF NoSeries(infos)
    THEN [noSeries |-> TRUE, groups |-> <<>>]
    ELSE [noSeries |-> FALSE, groups |-> SeriesGroups(infos)]

NothingPrinted == [noSeries |-> FALSE, groups |-> <<>>]

-----------------------------------------------------------------------------
(* The two text-report programs *)

TextIdle ==
    /\ prog = "none"
    /\ pc = "idle"
    /\ declared = NoCount
    /\ blocks = <<>>
    /\ missing = {}
    /\ outputStr = <<>>
    /\ seriesInfos = <<>>
    /\ readErr = FALSE
    /\ printed = NothingPrinted

ToolIdle ==
    /\ toolFn = "none"
    /\ toolPc = "idle"
    /\ exitCode = 0
    /\ stdout = <<>>
    /\ retOutput = <<>>
    /\ retErr = "nil"
    /\ xmlInput = <<"not decoded">>
    /\ retMetadata = FALSE

StoreIdle ==
    /\ storePc = "idle"
    /\ numChannels = 0
    /\ fileExisted = FALSE
    /\ sampleFile = NoFile
    /\ edited = FALSE
    /\ answer = "none"
    /\ sampleInfo = Nil
    /\ mode = "none"
    /\ toolAvailable = TRUE
    /\ images = <<>>
    /\ next = 0
    /\ spawned = 0
    /\ docs = <<>>

\* the zero values of Instrument and Image: no ID, nothing below
NoInstrument == [ID |-> <<>>, Detector |-> FALSE]
NoImageRecord == [ID |-> <<>>]

WalkIdle ==
    /\ walkPc = "idle"
    /\ rootNodes = <<>>
    /\ visited = <<>>
    /\ instr = NoInstrument
    /\ img = NoImageRecord
    /\ failures = 0
    /\ walkErr = "nil"

GateIdle ==
    /\ gatePc = "idle"
    /\ stdin = <<>>
    /\ confirmed = "none"
    /\ prompts = 0

InitText ==
    /\ ToolIdle
    /\ StoreIdle
    /\ WalkIdle
    /\ GateIdle
    /\ prog \in {"series", "thumb"}
    /\ pc = "start"
    /\ declared = NoCount
    /\ blocks = <<>>
    /\ missing = {}
    /\ outputStr = <<>>
    /\ seriesInfos = <<>>
    /\ readErr = FALSE
    /\ printed = NothingPrinted

\* main: checkJavaInstallation, exit 1 when java is not in the path
CheckJavaInstallation ==
    /\ pc = "start"
    /\ \E found \in BOOLEAN : pc' = IF found THEN "read" ELSE "exit1"
    /\ UNCHANGED <<prog, declared, blocks, missing, outputStr, seriesInfos, readErr, printed, notTextVars>>

\* the series count lines and the sets of left-out lines of the reports the
\* tool can print for the series bs
DeclaredCounts == {NoCount} \cup (0..MaxSeries)

MissingLines(bs) == SubsetsUpTo((1..Len(bs)) \X Fields, MaxMissing)

\* readImageMetadata: the command fails
ReadImageMetadataFails ==
    /\ pc = "read"
    /\ readErr' = TRUE
    /\ pc' = "exit1"
    /\ UNCHANGED <<prog, declared, blocks, missing, outputStr, seriesInfos, printed, notTextVars>>

\* part_000 readImageMetadata: the command succeeds and its output is parsed
ReadImageMetadataSeries ==
    /\ pc = "read"
    /\ prog = "series"
    /\ \E bs \in SeqsUpTo(SeriesBlocks, MaxSeries) :
       \E d \in DeclaredCounts, m \in MissingLines(bs) :
        /\ declared' = d
        /\ blocks' = bs
        /\ missing' = m
        /\ outputStr' = ReportText(d, bs, m)
        /\ seriesInfos' = ParseSeries(ReportText(d, bs, m))
    /\ pc' = "print"
    /\ UNCHANGED <<prog, readErr, printed, notTextVars>>

\* main.go readImageMetadata: the command succeeds and its output is parsed
ReadImageMetadataThumb ==
    /\ pc = "read"
    /\ prog = "thumb"
    /\ \E bs \in SeqsUpTo(SeriesBlocks, MaxSeries) :
       \E d \in DeclaredCounts, m \in MissingLines(bs) :
        /\ declared' = d
        /\ blocks' = bs
        /\ missing' = m
        /\ outputStr' = ReportText(d, bs, m)
        /\ seriesInfos' = ParseThumb(ReportText(d, bs, m))
    /\ pc' = "done"
    /\ UNCHANGED <<prog, readErr, printed, notTextVars>>

\* part_000 main: printSeriesGroups(seriesInfos)
PrintSeriesGroups ==
    /\ pc = "print"
    /\ printed' = PrintedFor(seriesInfos)
    /\ pc' = "done"
    /\ UNCHANGED <<prog, declared, blocks, missing, outputStr, seriesInfos, readErr, notTextVars>>

NextText ==
    \/ CheckJavaInstallation
    \/ ReadImageMetadataFails
    \/ ReadImageMetadataSeries
    \/ ReadImageMetadataThumb
    \/ PrintSeriesGroups

SpecText == InitText /\ [][NextText]_vars

-----------------------------------------------------------------------------
(* The grouper on its own: printSeriesGroups applied to any record sequence *)

MaxGroupLen == 4

GroupInputs ==
    { [Timepoints |-> 1, Channels |-> 1, ZStacks |-> 1],
      [Timepoints |-> 2, Channels |-> 1, ZStacks |-> 1],
      [Timepoints |-> 1, Channels |-> 2, ZStacks |-> 5] }

InitGroup ==
    /\ ToolIdle
    /\ StoreIdle
    /\ WalkIdle
    /\ GateIdle
    /\ prog = "series"
    /\ pc = "print"
    /\ declared = NoCount
    /\ blocks = <<>>
    /\ missing = {}
    /\ outputStr = <<>>
    /\ seriesInfos \in SeqsUpTo(GroupInputs, MaxGroupLen)
    /\ readErr = FALSE
    /\ printed = NothingPrinted

NextGroup == PrintSeriesGroups

SpecGroup == InitGroup /\ [][NextGroup]_vars

-----------------------------------------------------------------------------
(* The tool invokers and the XML path *)

MaxOut == 3

\* what a line of the subprocess output can be: a plain log line, the XML
\* declaration, the <OME> root element with its content, a log line that
\* contains markup characters
OutTokens == {"log", "<?xml", "<OME>", "<bad"}

ToolOutputs == SeqsUpTo(OutTokens, MaxOut)

ExitCodes == {0, 1}

\* strings.Index(output, "<?xml"): position of the first marker, -1 if none
XmlIndex(output) ==
    IF \E j \in 1..Len(output) : output[j] = "<?xml"
    THEN (CHOOSE j \in 1..Len(output) :
            /\ output[j] = "<?xml"
            /\ \A h \in 1..(j - 1) : output[h] # "<?xml") - 1
    ELSE -1

\* output[xmlIndex:]
SliceFrom(output, xmlIndex) == SubSeq(output, xmlIndex + 1, Len(output))

\* xml.Unmarshal(data, &metadata) with XMLName OME: character data and
\* processing instructions before the root are skipped, the first start
\* element must be <OME>, broken markup or the end of input is an error
XmlUnmarshalOK(data) ==
    \E j \in 1..Len(data) :
        /\ data[j] = "<OME>"
        /\ \A h \in 1..(j - 1) : data[h] \in {"log", "<?xml"}

InitTool ==
    /\ TextIdle
    /\ StoreIdle
    /\ WalkIdle
    /\ GateIdle
    /\ toolFn \in {"GetEssentialMetadata", "GetOmexmlMetadata", "bfReadImageMetadata"}
    /\ toolPc = "call"
    /\ exitCode = 0
    /\ stdout = <<>>
    /\ retOutput = <<>>
    /\ retErr = "nil"
    /\ xmlInput = <<"not decoded">>
    /\ retMetadata = FALSE

\* prepareFiles fails: no subprocess is started
PrepareFilesFails ==
    /\ toolPc = "call"
    /\ toolFn \in {"GetEssentialMetadata", "GetOmexmlMetadata"}
    /\ toolPc' = "returned"
    /\ retOutput' = <<>>
    /\ retErr' = "prepare"
    /\ UNCHANGED <<toolFn, exitCode, stdout, xmlInput, retMetadata, notToolVars>>

\* part_003 GetEssentialMetadata (text report mode)
GetEssentialMetadata ==
    /\ toolPc = "call"
    /\ toolFn = "GetEssentialMetadata"
    /\ \E code \in ExitCodes, out \in ToolOutputs :
        /\ exitCode' = code
        /\ stdout' = out
        /\ retOutput' = out
        /\ retErr' = IF code # 0 THEN "exec" ELSE "nil"
    /\ toolPc' = "returned"
    /\ UNCHANGED <<toolFn, xmlInput, retMetadata, notToolVars>>

\* metadata.go GetOmexmlMetadata (XML report mode)
GetOmexmlMetadata ==
    /\ toolPc = "call"
    /\ toolFn = "GetOmexmlMetadata"
    /\ \E code \in ExitCodes, out \in ToolOutputs :
        /\ exitCode' = code
        /\ stdout' = out
        /\ IF code # 0
           THEN retOutput' = <<>> /\ retErr' = "exec"
           ELSE IF XmlIndex(out) # -1
                THEN retOutput' = SliceFrom(out, XmlIndex(out)) /\ retErr' = "nil"
                ELSE retOutput' = <<>> /\ retErr' = "noxml"
    /\ toolPc' = "returned"
    /\ UNCHANGED <<toolFn, xmlInput, retMetadata, notToolVars>>

\* part_001 bfReadImageMetadata (XML report mode, decoded at once)
BfReadImageMetadata ==
    /\ toolPc = "call"
    /\ toolFn = "bfReadImageMetadata"
    /\ \E code \in ExitCodes, out \in ToolOutputs :
        /\ exitCode' = code
        /\ stdout' = out
        /\ IF code # 0
           THEN /\ retErr' = "exec"
                /\ retMetadata' = FALSE
                /\ UNCHANGED xmlInput
           ELSE /\ xmlInput' = out
                /\ retMetadata' = XmlUnmarshalOK(out)
                /\ retErr' = IF XmlUnmarshalOK(out) THEN "nil" ELSE "unmarshal"
    /\ toolPc' = "returned"
    /\ UNCHANGED <<toolFn, retOutput, notToolVars>>

NextTool ==
    \/ PrepareFilesFails
    \/ GetEssentialMetadata
    \/ GetOmexmlMetadata
    \/ BfReadImageMetadata

SpecTool == InitTool /\ [][NextTool]_vars

-----------------------------------------------------------------------------
(* The sample annotation store and the batch: part_001 main, processFolder,  *)
(* initializeSampleInfo, processDirectory, processImage, saveMetadataAsYAML   *)

MaxChannels == 3

\* fmt.Sprintf("Channel %d", i)
ChannelKey(i) == "Channel " \o ToString(i)

\* mutant: the channel keys are numbered from 0
createSampleInfo_ZeroBased(n) ==
    [Channels   |-> [key \in { ChannelKey(i - 1) : i \in 1..n } |->
                        LET i == CHOOSE i \in 1..n : ChannelKey(i - 1) = key
                        IN  IF i <= 2
                            THEN [Fluorophore |-> "Please_fill_in_a_fluorophore"]
                            ELSE [Fluorophore |-> "NA"]],
     ELNID      |-> "Please_fill_in_ELN_ID",
     SampleName |-> "Please_fill_in_a_sample_name"]

\* createSampleInfo
createSampleInfo(n) ==
    [Channels   |-> [key \in { ChannelKey(i) : i \in 1..n } |->
                        LET i == CHOOSE i \in 1..n : ChannelKey(i) = key
                        IN  IF i <= 2
                            THEN [Fluorophore |-> "Please_fill_in_a_fluorophore"]
                            ELSE [Fluorophore |-> "NA"]],
     ELNID      |-> "Please_fill_in_ELN_ID",
     SampleName |-> "Please_fill_in_a_sample_name"]

\* a set as an operator fills it in for n channels
FilledInSampleInfo(n) ==
    [Channels   |-> [key \in { ChannelKey(i) : i \in 1..n } |-> [Fluorophore |-> "GFP"]],
     ELNID      |-> "ELN-42",
     SampleName |-> "HeLa"]

\* yaml.Marshal(sample): the document with the yaml names of the fields
YamlMarshal(sample) ==
    [yamlKey \in {"Channels", "ELNID", "Sample name"} |->
        CASE yamlKey = "Channels" ->
                [key \in DOMAIN sample.Channels |->
                    [f \in {"Fluorophore"} |-> sample.Channels[key].Fluorophore]]
          [] yamlKey = "ELNID" -> sample.ELNID
          [] yamlKey = "Sample name" -> sample.SampleName]

\* yaml.Unmarshal(yamlData, &sampleInfo) fails
YamlUnmarshalFails(content) == content = Malformed

\* yaml.Unmarshal(yamlData, &sampleInfo) into the nil *SampleInfo: an empty
\* document leaves the pointer nil
YamlUnmarshal(content) ==
    IF content = EmptyDocument THEN Nil
    ELSE [Channels   |-> [key \in DOMAIN content["Channels"] |->
                            [Fluorophore |-> content["Channels"][key]["Fluorophore"]]],
          ELNID      |-> content["ELNID"],
          SampleName |-> content["Sample name"]]

\* what inputSampleInfo.yaml can hold when it exists
FileContents ==
    { YamlMarshal(createSampleInfo(n)) : n \in 0..MaxChannels }
        \cup { YamlMarshal(FilledInSampleInfo(n)) : n \in 0..MaxChannels }
        \cup { Malformed, EmptyDocument }

MaxImages == 2

\* bfReadImageMetadata returned an error: cmd.Run failed, xml.Unmarshal failed
ExecError == [err |-> "error parsing XML"]
XmlError == [err |-> "error unmarshaling XML"]

\* the i-th Channel element of an image (float64 values as whole numbers)
OMEChannel(i) ==
    [ID                   |-> "Channel:0:" \o ToString(i - 1),
     Name                 |-> "dye" \o ToString(i),
     EmissionWavelength   |-> 500 + 10 * i,
     ExcitationWavelength |-> 480 + 10 * i,
     SamplesPerPixel      |-> 1]

\* a Metadata value whose first Image has k channels
Meta(k) ==
    [Images |-> << [ID              |-> "Image:0",
                    Name            |-> "image",
                    AcquisitionDate |-> "2024-02-15T12:00:00",
                    Pixels          |-> [SizeX         |-> 512,
                                         SizeY         |-> 256,
                                         SizeZ         |-> 5,
                                         SizeC         |-> k,
                                         SizeT         |-> 3,
                                         PhysicalSizeX |-> 65,
                                         PhysicalSizeY |-> 66,
                                         PhysicalSizeZ |-> 200,
                                         Channels      |-> [i \in 1..k |-> OMEChannel(i)]]] >>]

\* the Metadata value of an RGB image: one Channel element with three
\* samples per pixel, and SizeC counting the samples
RGBImage ==
    [Images |-> << [ID              |-> "Image:0",
                    Name            |-> "rgb",
                    AcquisitionDate |-> "2024-02-15T12:00:00",
                    Pixels          |-> [SizeX         |-> 512,
                                         SizeY         |-> 256,
                                         SizeZ         |-> 1,
                                         SizeC         |-> 3,
                                         SizeT         |-> 1,
                                         PhysicalSizeX |-> 65,
                                         PhysicalSizeY |-> 66,
                                         PhysicalSizeZ |-> 0,
                                         Channels      |-> << [OMEChannel(1) EXCEPT
                                                                 !.SamplesPerPixel = 3] >>]] >>]

\* a Metadata value decoded from an OME document without Image element
NoImage == [Images |-> <<>>]

\* what bfReadImageMetadata can return for a file when java can be started
ToolResults == {ExecError, XmlError, NoImage, RGBImage} \cup { Meta(k) : k \in 0..MaxChannels }

IsError(result) == result \in {ExecError, XmlError}

\* the tool's OME-XML for a one-channel image whose EmissionWavelength
\* attribute carries its unit: the document of Meta(1) with that text in
\* place of the number
UnitSuffixed == [document |-> Meta(1), text |-> [EmissionWavelength |-> "488 nm"]]

\* what a run of the tool on a file can give: an outcome of ToolResults, or
\* output whose numeric attribute is not a number
ToolOutcomes == ToolResults \cup {UnitSuffixed}

\* xml.Unmarshal(output, &metadata): strconv.ParseFloat rejects the text of an
\* attribute bound to a float64 field, and the whole decoding returns that error
XmlUnmarshal(outcome) ==
    IF "text" \in DOMAIN outcome THEN XmlError ELSE outcome

\* bfReadImageMetadata(file i): exec fails when java cannot be started
MetadataOf(i) == IF toolAvailable THEN XmlUnmarshal(images[i]) ELSE ExecError

\* cmd.Run starts a subprocess only when the executable is found
Spawns == IF toolAvailable THEN 1 ELSE 0

\* ptr(v): a non-nil *float64
ptr(v) == [value |-> v]

\* mutant: the channel keys are numbered with the 0-based loop index
AcquisitionOf_ZeroBased(metadata) ==
    LET image == metadata.Images[1]
        channels == image.Pixels.Channels
        n == Len(channels)
    IN  [Channels    |-> [key \in { ChannelKey(i) : i \in 0..(n - 1) } |->
                            LET i == CHOOSE i \in 0..(n - 1) : ChannelKey(i) = key
                            IN  [NameID               |-> channels[i + 1].ID \o " " \o channels[i + 1].Name,
                                 EmissionWavelength   |-> channels[i + 1].EmissionWavelength,
                                 ExcitationWavelength |-> channels[i + 1].ExcitationWavelength]],
         DateAndTime |-> image.AcquisitionDate,
         ImageDims   |-> [SizeC |-> image.Pixels.SizeC,
                          SizeT |-> image.Pixels.SizeT,
                          SizeX |-> image.Pixels.SizeX,
                          SizeY |-> image.Pixels.SizeY,
                          SizeZ |-> image.Pixels.SizeZ],
         PixelSize   |-> [PhysicalSizeX |-> image.Pixels.PhysicalSizeX,
                          PhysicalSizeY |-> image.Pixels.PhysicalSizeY,
                          PhysicalSizeZ |-> ptr(image.Pixels.PhysicalSizeZ)]]

\* saveMetadataAsYAML: the acquisition value built from metadata.Images[0]; i
\* is the 0-based index of the range loop, channels[i + 1] is Go's channels[i]
AcquisitionOf(metadata) ==
    LET image == metadata.Images[1]
        channels == image.Pixels.Channels
        n == Len(channels)
    IN  [Channels    |-> [key \in { ChannelKey(i + 1) : i \in 0..(n - 1) } |->
                            LET i == CHOOSE i \in 0..(n - 1) : ChannelKey(i + 1) = key
                            IN  [NameID               |-> channels[i + 1].ID \o " " \o channels[i + 1].Name,
                                 EmissionWavelength   |-> channels[i + 1].EmissionWavelength,
                                 ExcitationWavelength |-> channels[i + 1].ExcitationWavelength]],
         DateAndTime |-> image.AcquisitionDate,
         ImageDims   |-> [SizeC |-> image.Pixels.SizeC,
                          SizeT |-> image.Pixels.SizeT,
                          SizeX |-> image.Pixels.SizeX,
                          SizeY |-> image.Pixels.SizeY,
                          SizeZ |-> image.Pixels.SizeZ],
         PixelSize   |-> [PhysicalSizeX |-> image.Pixels.PhysicalSizeX,
                          PhysicalSizeY |-> image.Pixels.PhysicalSizeY,
                          PhysicalSizeZ |-> ptr(image.Pixels.PhysicalSizeZ)]]

\* mutant: every document gets the defaults of its own image's channel count
FinalYAML_OwnDefaults(metadata, sample) ==
    [AcquisitionMetadata |-> AcquisitionOf(metadata),
     SampleInfo          |-> createSampleInfo(Len(metadata.Images[1].Pixels.Channels))]

\* saveMetadataAsYAML: the FinalYAML value handed to yaml.Marshal
FinalYAML(metadata, sample) ==
    [AcquisitionMetadata |-> AcquisitionOf(metadata),
     SampleInfo          |-> sample]

\* a nil pointer is written as the YAML null
YamlNull == [yaml |-> "null"]

\* mutant: the emission wavelength is written under a misspelt key
YamlMarshalChannelInfo_Typo(info) ==
    [yamlKey \in {"Name ID", "Emmision wavelength", "Excitation wavelength"} |->
        CASE yamlKey = "Name ID" -> info.NameID
          [] yamlKey = "Emmision wavelength" -> info.EmissionWavelength
          [] yamlKey = "Excitation wavelength" -> info.ExcitationWavelength]

\* yaml.Marshal of a ChannelInfo, by the yaml names of its fields
YamlMarshalChannelInfo(info) ==
    [yamlKey \in {"Name ID", "Emission wavelength", "Excitation wavelength"} |->
        CASE yamlKey = "Name ID" -> info.NameID
          [] yamlKey = "Emission wavelength" -> info.EmissionWavelength
          [] yamlKey = "Excitation wavelength" -> info.ExcitationWavelength]

\* yaml.Marshal of an AcquisitionMetadata
YamlMarshalAcquisition(acquisition) ==
    [yamlKey \in {"Channels", "DateAndTime", "Image dimensions", "Pixel size"} |->
        CASE yamlKey = "Channels" ->
                [key \in DOMAIN acquisition.Channels |->
                    YamlMarshalChannelInfo(acquisition.Channels[key])]
          [] yamlKey = "DateAndTime" -> acquisition.DateAndTime
          [] yamlKey = "Image dimensions" ->
                [f \in {"SizeC", "SizeT", "SizeX", "SizeY", "SizeZ"} |->
                    CASE f = "SizeC" -> acquisition.ImageDims.SizeC
                      [] f = "SizeT" -> acquisition.ImageDims.SizeT
                      [] f = "SizeX" -> acquisition.ImageDims.SizeX
                      [] f = "SizeY" -> acquisition.ImageDims.SizeY
                      [] f = "SizeZ" -> acquisition.ImageDims.SizeZ]
          [] yamlKey = "Pixel size" ->
                [f \in {"PhysicalSizeX", "PhysicalSizeY", "PhysicalSizeZ"} |->
                    CASE f = "PhysicalSizeX" -> acquisition.PixelSize.PhysicalSizeX
                      [] f = "PhysicalSizeY" -> acquisition.PixelSize.PhysicalSizeY
                      [] f = "PhysicalSizeZ" ->
                            IF acquisition.PixelSize.PhysicalSizeZ = Nil
                            THEN YamlNull
                            ELSE [float |-> acquisition.PixelSize.PhysicalSizeZ.value]]]

\* yaml.Marshal(finalYAML)
YamlMarshalFinal(final) ==
    [yamlKey \in {"Acquisition metadata", "Sample info"} |->
        CASE yamlKey = "Acquisition metadata" -> YamlMarshalAcquisition(final.AcquisitionMetadata)
          [] yamlKey = "Sample info" -> YamlMarshal(final.SampleInfo)]

\* the decoder sets a field from the key of its yaml name and leaves the
\* zero value when the mapping has no such key
YamlField(content, yamlKey, zero) ==
    IF yamlKey \in DOMAIN content THEN content[yamlKey] ELSE zero

\* yaml.Unmarshal into a ChannelInfo
YamlUnmarshalChannelInfo(content) ==
    [NameID               |-> YamlField(content, "Name ID", ""),
     EmissionWavelength   |-> YamlField(content, "Emission wavelength", 0),
     ExcitationWavelength |-> YamlField(content, "Excitation wavelength", 0)]

\* yaml.Unmarshal into an AcquisitionMetadata
YamlUnmarshalAcquisition(content) ==
    LET channels == YamlField(content, "Channels", <<>>)
        dims == YamlField(content, "Image dimensions", <<>>)
        size == YamlField(content, "Pixel size", <<>>)
        z == YamlField(size, "PhysicalSizeZ", YamlNull)
    IN  [Channels    |-> [key \in DOMAIN channels |-> YamlUnmarshalChannelInfo(channels[key])],
         DateAndTime |-> YamlField(content, "DateAndTime", ""),
         ImageDims   |-> [SizeC |-> YamlField(dims, "SizeC", 0),
                          SizeT |-> YamlField(dims, "SizeT", 0),
                          SizeX |-> YamlField(dims, "SizeX", 0),
                          SizeY |-> YamlField(dims, "SizeY", 0),
                          SizeZ |-> YamlField(dims, "SizeZ", 0)],
         PixelSize   |-> [PhysicalSizeX |-> YamlField(size, "PhysicalSizeX", 0),
                          PhysicalSizeY |-> YamlField(size, "PhysicalSizeY", 0),
                          PhysicalSizeZ |-> IF z = YamlNull THEN Nil ELSE ptr(z.float)]]

\* yaml.Unmarshal into a FinalYAML
YamlUnmarshalFinal(content) ==
    [AcquisitionMetadata |-> YamlUnmarshalAcquisition(YamlField(content, "Acquisition metadata", <<>>)),
     SampleInfo          |-> YamlUnmarshal(content["Sample info"])]

\* the inputs of a run never change
inputVars == <<mode, toolAvailable, images>>

InitStore ==
    /\ TextIdle
    /\ ToolIdle
    /\ WalkIdle
    /\ GateIdle
    /\ storePc = "start"
    /\ numChannels = 0
    /\ fileExisted = FALSE
    /\ mode \in {"dir", "file"}
    /\ toolAvailable \in BOOLEAN
    /\ images \in IF mode = "dir"
                  THEN SeqsUpTo(ToolOutcomes, MaxImages)
                  ELSE { <<outcome>> : outcome \in ToolOutcomes }
    /\ sampleFile \in IF mode = "dir" THEN FileContents \cup {NoFile} ELSE {NoFile}
    /\ edited = FALSE
    /\ answer = "none"
    /\ sampleInfo = Nil
    /\ next = 1
    /\ spawned = 0
    /\ docs = [i \in 1..Len(images) |-> NoFile]

\* main ends the run before any work: loadEnv, validateFlags, os.Stat(path)
\* or the missing -ext of a directory end in log.Fatal
MainFails ==
    /\ storePc = "start"
    /\ storePc' = "fatal"
    /\ UNCHANGED <<numChannels, fileExisted, sampleFile, edited, answer, sampleInfo,
                   next, spawned, docs, inputVars, notStoreVars>>

\* initializeSampleInfo returns an error before the gate: the directory cannot
\* be read, holds no matching image, or the first image's metadata cannot be
\* read; processFolder then ends the run with log.Fatalf
InitializeSampleInfoFails ==
    /\ storePc = "start"
    /\ mode = "dir"
    /\ \E readDirOK \in BOOLEAN :
        IF ~readDirOK \/ images = <<>>
        THEN UNCHANGED spawned
        ELSE /\ IsError(MetadataOf(1))
             /\ spawned' = spawned + Spawns
    /\ storePc' = "fatal"
    /\ UNCHANGED <<numChannels, fileExisted, sampleFile, edited, answer, sampleInfo,
                   next, docs, inputVars, notStoreVars>>

\* initializeSampleInfo reads metadata.Images[0] of a report without Image
InitializeSampleInfoNoImage ==
    /\ storePc = "start"
    /\ mode = "dir"
    /\ images # <<>>
    /\ MetadataOf(1) = NoImage
    /\ spawned' = spawned + Spawns
    /\ storePc' = "panic"
    /\ UNCHANGED <<numChannels, fileExisted, sampleFile, edited, answer, sampleInfo,
                   next, docs, inputVars, notStoreVars>>

\* initializeSampleInfo up to the gate: the channel count of the first image,
\* os.Stat, and createSampleInfoFile when the file does not exist
InitializeSampleInfoBegin ==
    /\ storePc = "start"
    /\ mode = "dir"
    /\ images # <<>>
    /\ ~IsError(MetadataOf(1))
    /\ MetadataOf(1) # NoImage
    /\ spawned' = spawned + Spawns
    /\ \E writeOK \in BOOLEAN :
        LET n == Len(MetadataOf(1).Images[1].Pixels.Channels)
        IN  /\ numChannels' = n
            /\ IF sampleFile # NoFile
               THEN /\ fileExisted' = TRUE
                    /\ storePc' = "awaitUser"
                    /\ UNCHANGED sampleFile
               ELSE /\ fileExisted' = FALSE
                    /\ IF writeOK
                       THEN /\ sampleFile' = YamlMarshal(createSampleInfo(n))
                            /\ storePc' = "awaitUser"
                       ELSE /\ storePc' = "fatal"
                            /\ UNCHANGED sampleFile
    /\ UNCHANGED <<edited, answer, sampleInfo, next, docs, inputVars, notStoreVars>>

\* the operator edits, replaces or deletes the file while the gate waits
OperatorEditsFile ==
    /\ storePc = "awaitUser"
    /\ \E content \in FileContents \cup {NoFile} :
        /\ content # sampleFile
        /\ sampleFile' = content
    /\ edited' = TRUE
    /\ UNCHANGED <<storePc, numChannels, fileExisted, answer, sampleInfo,
                   next, spawned, docs, inputVars, notStoreVars>>

\* mutant: a file that cannot be parsed is answered with the default set
InitializeSampleInfoConfirmed_FallsBack ==
    /\ storePc = "awaitUser"
    /\ answer' = "yes"
    /\ IF sampleFile = NoFile
       THEN storePc' = "fatal" /\ UNCHANGED sampleInfo
       ELSE /\ storePc' = "resolved"
            /\ sampleInfo' = IF YamlUnmarshalFails(sampleFile)
                             THEN createSampleInfo(numChannels)
                             ELSE YamlUnmarshal(sampleFile)
    /\ UNCHANGED <<numChannels, fileExisted, sampleFile, edited,
                   next, spawned, docs, inputVars, notStoreVars>>

\* initializeSampleInfo after waitForUserConfirmation returned true
InitializeSampleInfoConfirmed ==
    /\ storePc = "awaitUser"
    /\ answer' = "yes"
    /\ IF sampleFile = NoFile \/ YamlUnmarshalFails(sampleFile)
       THEN storePc' = "fatal" /\ UNCHANGED sampleInfo
       ELSE storePc' = "resolved" /\ sampleInfo' = YamlUnmarshal(sampleFile)
    /\ UNCHANGED <<numChannels, fileExisted, sampleFile, edited,
                   next, spawned, docs, inputVars, notStoreVars>>

\* mutant: after "no" the file that was created for the gate is left in place
InitializeSampleInfoDeclined_KeepsFile ==
    /\ storePc = "awaitUser"
    /\ answer' = "no"
    /\ IF sampleFile = NoFile
       THEN storePc' = "fatal" /\ UNCHANGED <<sampleFile, sampleInfo>>
       ELSE /\ sampleFile' = IF fileExisted
                             THEN YamlMarshal(createSampleInfo(numChannels))
                             ELSE sampleFile
            /\ sampleInfo' = createSampleInfo(numChannels)
            /\ storePc' = "resolved"
    /\ UNCHANGED <<numChannels, fileExisted, edited,
                   next, spawned, docs, inputVars, notStoreVars>>

\* mutant: after "no" an existing file is deleted and not created again
InitializeSampleInfoDeclined_NoRecreate ==
    /\ storePc = "awaitUser"
    /\ answer' = "no"
    /\ IF sampleFile = NoFile
       THEN storePc' = "fatal" /\ UNCHANGED <<sampleFile, sampleInfo>>
       ELSE /\ sampleFile' = NoFile
            /\ sampleInfo' = createSampleInfo(numChannels)
            /\ storePc' = "resolved"
    /\ UNCHANGED <<numChannels, fileExisted, edited,
                   next, spawned, docs, inputVars, notStoreVars>>

\* initializeSampleInfo after waitForUserConfirmation returned false
InitializeSampleInfoDeclined ==
    /\ storePc = "awaitUser"
    /\ answer' = "no"
    /\ \E writeOK \in BOOLEAN :
        IF sampleFile = NoFile
        THEN storePc' = "fatal" /\ UNCHANGED <<sampleFile, sampleInfo>>
        ELSE IF fileExisted
             THEN IF writeOK
                  THEN /\ sampleFile' = YamlMarshal(createSampleInfo(numChannels))
                       /\ sampleInfo' = createSampleInfo(numChannels)
                       /\ storePc' = "resolved"
                  ELSE /\ sampleFile' = NoFile
                       /\ storePc' = "fatal"
                       /\ UNCHANGED sampleInfo
             ELSE /\ sampleFile' = NoFile
                  /\ sampleInfo' = createSampleInfo(numChannels)
                  /\ storePc' = "resolved"
    /\ UNCHANGED <<numChannels, fileExisted, edited,
                   next, spawned, docs, inputVars, notStoreVars>>

\* processDirectory cannot list the directory: log.Fatalf
ProcessDirectoryFails ==
    /\ storePc = "resolved"
    /\ next = 1
    /\ storePc' = "fatal"
    /\ UNCHANGED <<numChannels, fileExisted, sampleFile, edited, answer, sampleInfo,
                   next, spawned, docs, inputVars, notStoreVars>>

\* mutant: the loop over the files starts while the gate is still waiting
Processing_WhileWaiting ==
    \/ mode = "dir" /\ storePc \in {"awaitUser", "resolved"}
    \/ mode = "file" /\ storePc = "start"

\* processImage is about to be called: by the loop of processDirectory with
\* the resolved set, or by main for a single image with a nil set
Processing ==
    \/ mode = "dir" /\ storePc = "resolved"
    \/ mode = "file" /\ storePc = "start"

\* processImage for the file at next, and the step of the loop after it
ProcessImage ==
    /\ Processing
    /\ next <= Len(images)
    /\ \E noMetadataTxt \in BOOLEAN, writeOK \in BOOLEAN :
        LET metadata == MetadataOf(next)
            goOn == /\ next' = next + 1
                    /\ storePc' = IF next = Len(images) THEN "done" ELSE storePc
        IN  IF noMetadataTxt
            THEN \* an .ims file without its _metadata.txt: return nil
                 /\ goOn
                 /\ UNCHANGED <<spawned, docs>>
            ELSE /\ spawned' = spawned + Spawns
                 /\ IF IsError(metadata)
                    THEN \* log.Fatalf("Skipping file ...")
                         /\ storePc' = "fatal"
                         /\ UNCHANGED <<next, docs>>
                    ELSE IF metadata = NoImage \/ sampleInfo = Nil
                    THEN \* metadata.Images[0], *sampleInfo
                         /\ storePc' = "panic"
                         /\ UNCHANGED <<next, docs>>
                    ELSE /\ goOn
                         /\ docs' = IF writeOK
                                    THEN [docs EXCEPT ![next] =
                                            YamlMarshalFinal(FinalYAML(metadata, sampleInfo))]
                                    ELSE docs
    /\ UNCHANGED <<numChannels, fileExisted, sampleFile, edited, answer, sampleInfo,
                   inputVars, notStoreVars>>

NextStore ==
    \/ MainFails
    \/ InitializeSampleInfoFails
    \/ InitializeSampleInfoNoImage
    \/ InitializeSampleInfoBegin
    \/ OperatorEditsFile
    \/ InitializeSampleInfoConfirmed
    \/ InitializeSampleInfoDeclined
    \/ ProcessDirectoryFails
    \/ ProcessImage

SpecStore == InitStore /\ [][NextStore]_vars

-----------------------------------------------------------------------------
(* The XML projection: metadata.go GetMetadata, ParseAndProcessMetadata, walk *)

MaxNodes == 4

\* element names of the tool's OME document, "Other" for any unrecognized one
ElementNames == {"Instrument", "Image", "Detector", "Other"}

\* the forests of exactly n elements: sequences of Node values, each with its
\* name and its child elements (Node.XMLName.Local, Node.Nodes); the ID
\* attribute of an element is its path below the root
RECURSIVE ForestsOf(_)
ForestsOf(n) ==
    IF n = 0
    THEN { <<>> }
    ELSE UNION { { <<[name |-> nm, nodes |-> below]>> \o rest :
                        nm \in ElementNames,
                        below \in ForestsOf(k - 1),
                        rest \in ForestsOf(n - k) } : k \in 1..n }

\* xml.Unmarshal(node.Content, &instr): the decoder reads the inner XML of the
\* node, so the element it fills the record from is the node's first child:
\* that child's ID attribute and that child's Detector element. Inner XML
\* without any element ends in EOF and leaves the record as it was; fields the
\* decoded element does not set keep their earlier values
UnmarshalInstrument(node, path, st) ==
    IF node.nodes = <<>>
    THEN [st EXCEPT !.failures = @ + 1]
    ELSE [st EXCEPT !.instr =
            [ID       |-> Append(path, 1),
             Detector |-> \/ st.instr.Detector
                          \/ \E j \in 1..Len(node.nodes[1].nodes) :
                                node.nodes[1].nodes[j].name = "Detector"]]

\* xml.Unmarshal(node.Content, &img)
UnmarshalImage(node, path, st) ==
    IF node.nodes = <<>>
    THEN [st EXCEPT !.failures = @ + 1]
    ELSE [st EXCEPT !.img = [ID |-> Append(path, 1)]]

\* the processFunc of GetMetadata: the switch on the element name; it
\* returns true for every node
ProcessFunc(node, path, st) ==
    LET seen == [st EXCEPT !.visited = Append(@, path)]
    IN  [descend |-> TRUE,
         state   |-> CASE node.name = "Instrument" -> UnmarshalInstrument(node, path, seen)
                       [] node.name = "Image" -> UnmarshalImage(node, path, seen)
                       [] OTHER -> seen]

\* walk(nodes, processFunc) from the k-th node of the range loop on
RECURSIVE walk(_, _, _, _)
walk(nodes, k, prefix, st) ==
    IF k > Len(nodes)
    THEN st
    ELSE LET path == Append(prefix, k)
             called == ProcessFunc(nodes[k], path, st)
             after == IF called.descend
                      THEN walk(nodes[k].nodes, 1, path, called.state)
                      ELSE called.state
         IN  walk(nodes, k + 1, prefix, after)

InitWalk ==
    /\ TextIdle
    /\ ToolIdle
    /\ StoreIdle
    /\ GateIdle
    /\ walkPc = "call"
    /\ \E n \in 0..MaxNodes : rootNodes \in ForestsOf(n)
    /\ visited = <<>>
    /\ instr = NoInstrument
    /\ img = NoImageRecord
    /\ failures = 0
    /\ walkErr = "nil"

\* GetMetadata when GetOmexmlMetadata fails or the document is not XML
GetMetadataFails ==
    /\ walkPc = "call"
    /\ walkPc' = "returned"
    /\ \E e \in {"error retrieving OME-XML metadata", "error processing XML metadata"} :
        walkErr' = e
    /\ UNCHANGED <<rootNodes, visited, instr, img, failures, notWalkVars>>

\* GetMetadata on a document that parses into the Node tree
GetMetadata ==
    /\ walkPc = "call"
    /\ walkPc' = "returned"
    /\ LET st == walk(rootNodes, 1, <<>>,
                      [visited |-> <<>>, instr |-> instr, img |-> img, failures |-> 0])
       IN  /\ visited' = st.visited
           /\ instr' = st.instr
           /\ img' = st.img
           /\ failures' = st.failures
    /\ walkErr' = "nil"
    /\ UNCHANGED <<rootNodes, notWalkVars>>

NextWalk ==
    \/ GetMetadataFails
    \/ GetMetadata

SpecWalk == InitWalk /\ [][NextWalk]_vars

-----------------------------------------------------------------------------
(* The confirmation gate: part_001 waitForUserConfirmation *)

MaxLines == 2
MaxPrompts == 3

\* unicode.IsSpace for the characters of the inputs
WhiteSpace == {" ", "\t", "\r", "\n"}

\* what one reader.ReadString('\n') can return while input lasts: a line
\* with its newline, or the rest of the input when it ends without one; a
\* string is the sequence of its characters
InputLines ==
    { <<"y", "\n">>, <<"y", "e", "s", "\n">>, <<"n", "\n">>, <<"n", "o", "\n">>,
      <<" ", "y", " ", "\r", "\n">>, <<"\t", "n", "o">>, <<"y", "e", "s">>,
      <<"Y", "\n">>, <<"y", " ", "e", "s", "\n">>, <<"o", "k", "\n">>, <<"\n">> }

\* strings.TrimLeft / TrimRight by white space
RECURSIVE TrimLeft(_)
TrimLeft(s) ==
    IF s # <<>> /\ Head(s) \in WhiteSpace THEN TrimLeft(Tail(s)) ELSE s

RECURSIVE TrimRight(_)
TrimRight(s) ==
    IF s # <<>> /\ s[Len(s)] \in WhiteSpace THEN TrimRight(SubSeq(s, 1, Len(s) - 1)) ELSE s

\* strings.TrimSpace
TrimSpace(s) == TrimRight(TrimLeft(s))

\* reader.ReadString('\n') with its error dropped: the next line, or the empty
\* string once the input has ended
ReadString == IF stdin = <<>> THEN <<>> ELSE Head(stdin)

InitGate ==
    /\ TextIdle
    /\ ToolIdle
    /\ StoreIdle
    /\ WalkIdle
    /\ gatePc = "prompt"
    /\ stdin \in SeqsUpTo(InputLines, MaxLines)
    /\ confirmed = "none"
    /\ prompts = 0

\* one turn of the loop of waitForUserConfirmation: print the question, read
\* a line, trim it, return on one of the four answers
WaitForUserConfirmation ==
    /\ gatePc = "prompt"
    /\ prompts' = IF prompts < MaxPrompts THEN prompts + 1 ELSE prompts
    /\ stdin' = IF stdin = <<>> THEN stdin ELSE Tail(stdin)
    /\ LET input == TrimSpace(ReadString)
       IN  IF input = <<"y">> \/ input = <<"y", "e", "s">>
           THEN gatePc' = "returned" /\ confirmed' = "true"
           ELSE IF input = <<"n">> \/ input = <<"n", "o">>
           THEN gatePc' = "returned" /\ confirmed' = "false"
           ELSE UNCHANGED <<gatePc, confirmed>>
    /\ UNCHANGED notGateVars

NextGate == WaitForUserConfirmation

SpecGate == InitGate /\ [][NextGate]_vars

-----------------------------------------------------------------------------
(* Properties of the text report parser *)

\* readImageMetadata has returned its records
Parsed ==
    \/ prog = "series" /\ pc \in {"print", "done"}
    \/ prog = "thumb" /\ pc = "done"

\* the report is well formed: the series count is the number of series and
\* every per-series field occurs once per series
WellFormed == declared = Len(blocks) /\ missing = {}

\* the record the program builds for series k when field f takes value v(f)
RecordOf(v(_)) ==
    IF prog = "series"
    THEN [Timepoints |-> v("SizeT"), Channels |-> v("SizeC"), ZStacks |-> v("SizeZ")]
    ELSE [T |-> v("SizeT"), C |-> v("SizeC"), Z |-> v("SizeZ"),
          X |-> v("Width"), Y |-> v("Height")]

\* the record of series k as the report states it, an absent field being 0
StatedRecord(k) ==
    LET v(f) == IF <<k, f>> \in missing THEN 0 ELSE blocks[k][f]
    IN  RecordOf(v)

\* the series the thumbnail-aware program must keep, in index order; flagOf
\* gives the flag to assume for a series
KeptSeries(flagOf(_)) ==
    SelectSeq([k \in 1..Len(blocks) |-> k],
              LAMBDA k : prog = "series" \/ flagOf(k) = "false")

StatedFlag(k) == blocks[k]["Thumbnail"]

FlagOrFalse(k) == IF <<k, "Thumbnail">> \in missing THEN "false" ELSE blocks[k]["Thumbnail"]

RecordsOf(kept) == [j \in 1..Len(kept) |-> StatedRecord(kept[j])]

\* C1 as stated: a well-formed report of n series with every field stated n
\* times yields exactly n records, record i carrying the i-th occurrences.
C1_Original ==
    (Parsed /\ WellFormed) =>
        /\ Len(seriesInfos) = declared
        /\ \A k \in 1..Len(blocks) : seriesInfos[k] = StatedRecord(k)

\* C1 amended: a well-formed report yields one record per series that is not
\* flagged as a thumbnail (all n series in the program that does not read the
\* flag), in index order, each carrying that series' occurrence of each field.
C1_WellFormedRecords ==
    (Parsed /\ WellFormed) => seriesInfos = RecordsOf(KeptSeries(StatedFlag))

C1_Witness ==
    /\ Parsed /\ WellFormed
    /\ prog = "thumb"
    /\ declared = 2
    /\ blocks[1]["Thumbnail"] = "true"
    /\ blocks[2]["Thumbnail"] = "false"
    /\ blocks[1]["SizeZ"] # blocks[2]["SizeZ"]
    /\ Len(seriesInfos) = 1

\* C2: when exactly one dimensional field is absent for one series k, that
\* field is 0 for series k only and every other value is the stated one.
C2_MissingFieldDefaultsInPlace ==
    (/\ Parsed
     /\ declared = Len(blocks)
     /\ Cardinality(missing) = 1
     /\ \A sf \in missing : sf[2] \in DimFields)
        => seriesInfos = RecordsOf(KeptSeries(StatedFlag))

\* every series of the report states field f
StatedByAll(f) == \A sf \in missing : sf[2] # f

C4_MissingFlagRetained ==
    (/\ Parsed
     /\ prog = "thumb"
     /\ declared = Len(blocks)
     /\ \E sf \in missing : sf[2] = "Thumbnail")
        => Len(seriesInfos) = Len(KeptSeries(FlagOrFalse))

\* C5: a report whose series count is absent or 0 yields no record and no
\* error, whatever field lines it contains.
C5_NoCountNoRecords ==
    (Parsed /\ declared \in {NoCount, 0}) => (seriesInfos = <<>> /\ ~readErr)

C5_Witness ==
    /\ Parsed
    /\ declared = NoCount
    /\ Len(FindAllStringSubmatch(outputStr, "SizeT")) = 2
    /\ seriesInfos = <<>>

-----------------------------------------------------------------------------
(* Properties of the series grouper *)

Grouped == prog = "series" /\ pc = "done"

\* C6: for a non-empty input the printed groups are the maximal runs of equal
\* adjacent records: contiguous, disjoint, from index 0 to n-1, every member
\* equal to the representative, consecutive representatives different.
C6_MaximalRuns ==
    (Grouped /\ Len(seriesInfos) > 0) =>
        LET g == printed.groups
            n == Len(seriesInfos)
        IN  /\ Len(g) >= 1
            /\ g[1][1] = 0
            /\ g[Len(g)][2] = n - 1
            /\ \A j \in 1..Len(g) :
                /\ g[j][1] <= g[j][2]
                /\ \A i \in g[j][1]..g[j][2] : seriesInfos[i + 1] = g[j][3]
            /\ \A j \in 1..(Len(g) - 1) :
                /\ g[j + 1][1] = g[j][2] + 1
                /\ g[j][3] # g[j + 1][3]

C6_Witness ==
    LET a == [Timepoints |-> 1, Channels |-> 1, ZStacks |-> 1]
        b == [Timepoints |-> 2, Channels |-> 1, ZStacks |-> 1]
    IN  /\ Grouped
        /\ seriesInfos = <<a, a, b>>
        /\ printed.groups = << <<0, 1, a>>, <<2, 2, b>> >>

\* C7: the "no series" message is printed exactly for the empty input, and
\* then no group is printed.
C7_NoSeriesIffEmpty ==
    Grouped =>
        /\ printed.noSeries <=> (Len(seriesInfos) = 0)
        /\ Len(seriesInfos) = 0 => printed.groups = <<>>
        /\ Len(seriesInfos) > 0 => printed.groups # <<>>

C7_Witness ==
    /\ Grouped
    /\ seriesInfos = <<>>
    /\ printed = [noSeries |-> TRUE, groups |-> <<>>]

-----------------------------------------------------------------------------
(* Properties of the tool invokers *)

Returned == toolPc = "returned" /\ retErr # "prepare"

\* C8: the XML path decodes only what starts at the first <?xml marker, and
\* without a marker it fails and returns no metadata.
C8_DecodesFromMarker ==
    (Returned /\ exitCode = 0) =>
        /\ toolFn = "GetOmexmlMetadata" =>
            IF XmlIndex(stdout) # -1
            THEN retErr = "nil" /\ retOutput = SliceFrom(stdout, XmlIndex(stdout))
            ELSE retErr # "nil" /\ retOutput = <<>>
        /\ toolFn = "bfReadImageMetadata" =>
            IF XmlIndex(stdout) # -1
            THEN retMetadata = XmlUnmarshalOK(SliceFrom(stdout, XmlIndex(stdout)))
            ELSE retErr # "nil" /\ ~retMetadata

\* C9: an invocation succeeds only with exit code 0 and a non-empty stdout;
\* a non-zero exit is an execution error and an empty stdout is an error too.
C9_SuccessNeedsOutput ==
    Returned =>
        /\ exitCode # 0 => retErr = "exec"
        /\ (exitCode = 0 /\ stdout = <<>>) => retErr # "nil"
        /\ retErr = "nil" => (exitCode = 0 /\ stdout # <<>>)

-----------------------------------------------------------------------------
(* Properties of the sample annotation store *)

FillInTexts ==
    {"Please_fill_in_a_fluorophore", "Please_fill_in_a_sample_name", "Please_fill_in_ELN_ID"}

ChannelKeys(n) == { ChannelKey(i) : i \in 1..n }

\* the set is used as a fresh default: the file initializeSampleInfo has just
\* created, and the set it returns after "no" when no file existed
FreshFile == storePc = "awaitUser" /\ ~fileExisted /\ ~edited
DeclinedFresh == storePc = "resolved" /\ ~fileExisted /\ answer = "no"

IsDefaultSet(set, n) ==
    /\ set # Nil
    /\ DOMAIN set.Channels = ChannelKeys(n)
    /\ \A i \in 1..n :
          set.Channels[ChannelKey(i)].Fluorophore =
              IF i <= 2 THEN "Please_fill_in_a_fluorophore" ELSE "NA"
    /\ set.ELNID = "Please_fill_in_ELN_ID"
    /\ set.SampleName = "Please_fill_in_a_sample_name"

-----------------------------------------------------------------------------
(* C11: the gate when no annotation file exists *)

\* the gate returns its answer in this step
Answers(a) == answer = "none" /\ answer' = a

\* C11: starting without an annotation file, the file holds the defaults of
\* the first image's channel count when the gate starts to wait and no answer
\* has been given yet; a "yes" that resolves the set returns the set parsed
\* from the file as it then is and leaves that file in place; a "no" that
\* resolves the set returns the default set and deletes the file; after "no"
\* no step of the run brings the file back
C11_FreshGate ==
    [][ /\ (storePc = "start" /\ storePc' = "awaitUser" /\ sampleFile = NoFile)
            => /\ sampleFile' = YamlMarshal(createSampleInfo(numChannels'))
               /\ answer' = "none"
        /\ (Answers("yes") /\ ~fileExisted /\ storePc' = "resolved")
            => /\ sampleFile # NoFile
               /\ sampleFile' = sampleFile
               /\ sampleInfo' = YamlUnmarshal(sampleFile)
        /\ (Answers("no") /\ ~fileExisted /\ storePc' = "resolved")
            => /\ sampleFile' = NoFile
               /\ sampleInfo' = createSampleInfo(numChannels)
        /\ (answer' = "no" /\ ~fileExisted') => sampleFile' = NoFile
        /\ (answer = "none" /\ storePc = "awaitUser")
            => (answer' # "none" \/ storePc' = "awaitUser")
      ]_vars

\* the operator filled in the created file, answered "yes", and the batch
\* wrote a document with that set while the file is still there
C11_Witness ==
    /\ ~fileExisted
    /\ edited
    /\ answer = "yes"
    /\ numChannels = 2
    /\ sampleInfo = FilledInSampleInfo(2)
    /\ sampleFile = YamlMarshal(FilledInSampleInfo(2))
    /\ storePc = "done"
    /\ \E i \in DOMAIN docs : docs[i] # NoFile

-----------------------------------------------------------------------------
(* C12: the gate when the annotation file exists *)

\* C12: an annotation file that exists when the batch starts is left as it is
\* by every step of the program up to the answer; a "yes" that resolves the
\* set returns the set parsed from the file and no later step changes the
\* file; a "no" that resolves the set leaves a file with the defaults of the
\* first image's channel count, and the set returned is those defaults, equal
\* to the set that file parses to
C12_ExistingFileGate ==
    [][ /\ (storePc = "start" /\ sampleFile # NoFile)
            => /\ sampleFile' = sampleFile
               /\ answer' = "none"
        /\ (Answers("yes") /\ fileExisted /\ storePc' = "resolved")
            => /\ sampleFile' = sampleFile
               /\ sampleInfo' = YamlUnmarshal(sampleFile)
        /\ (answer = "yes" /\ fileExisted) => sampleFile' = sampleFile
        /\ (Answers("no") /\ fileExisted /\ storePc' = "resolved")
            => /\ sampleFile' = YamlMarshal(createSampleInfo(numChannels))
               /\ sampleInfo' = createSampleInfo(numChannels)
               /\ sampleInfo' = YamlUnmarshal(sampleFile')
      ]_vars

\* an existing file filled in for two channels was declined for a batch whose
\* first image has three: the file and the set hold the defaults for three
C12_Witness ==
    /\ fileExisted
    /\ answer = "no"
    /\ numChannels = 3
    /\ sampleFile = YamlMarshal(createSampleInfo(3))
    /\ sampleInfo = createSampleInfo(3)
    /\ storePc = "done"
    /\ \E i \in DOMAIN docs : docs[i] # NoFile

-----------------------------------------------------------------------------
(* C13: the gate comes before the files of the directory *)

NoDocumentWritten == \A i \in DOMAIN docs : docs[i] = NoFile

\* C13 as stated: in a directory batch no subprocess has been started and no
\* document has been written as long as the gate has not been answered
C13_Original ==
    (mode = "dir" /\ answer = "none") => (spawned = 0 /\ NoDocumentWritten)

\* C13: in a directory batch, as long as the gate has not been answered, no
\* document has been written, the loop over the files has not handled any
\* file, and the only subprocess started is the one initializeSampleInfo runs
\* on the first image to count its channels: it has run when the gate waits
C13_GateBeforeFiles ==
    (mode = "dir" /\ answer = "none")
        => /\ NoDocumentWritten
           /\ next = 1
           /\ spawned <= 1
           /\ storePc = "awaitUser" => spawned = 1

\* the gate waits in a directory of two images, the first already read
C13_Witness ==
    /\ mode = "dir"
    /\ storePc = "awaitUser"
    /\ answer = "none"
    /\ Len(images) = 2
    /\ spawned = 1

-----------------------------------------------------------------------------
(* C14: the resolved set is shared read-only *)

\* the sample section a written document parses to
SampleSectionOf(doc) == YamlUnmarshalFinal(doc).SampleInfo

\* C14: once the gate has returned the set, no step of the batch changes it,
\* and after every step the sample section of every document written so far
\* parses to that set
C14_SharedReadOnly ==
    [][ /\ (storePc = "resolved") => (sampleInfo' = sampleInfo)
        /\ \A i \in DOMAIN docs' :
              docs'[i] # NoFile => SampleSectionOf(docs'[i]) = sampleInfo'
      ]_vars

\* a batch of two images with different channel counts wrote both documents
\* with the set the operator filled in for two channels
C14_Witness ==
    /\ storePc = "done"
    /\ Len(images) = 2
    /\ images[1] = Meta(2)
    /\ images[2] = Meta(3)
    /\ sampleInfo = FilledInSampleInfo(2)
    /\ \A i \in DOMAIN docs :
          docs[i] # NoFile /\ SampleSectionOf(docs[i]) = FilledInSampleInfo(2)

-----------------------------------------------------------------------------
(* C15: channel count of an image against the annotation set *)

\* the tool returned metadata with an Image for file i
HasImage(i) == ~IsError(MetadataOf(i)) /\ MetadataOf(i) # NoImage

\* len(metadata.Images[0].Pixels.Channels) of file i
ChannelCountOf(i) == Len(MetadataOf(i).Images[1].Pixels.Channels)

\* C15: no document is written for an image whose channel count differs from
\* the number of channels of the batch's annotation set
C15_MismatchNotWritten ==
    \A i \in DOMAIN docs :
        (/\ sampleInfo # Nil
         /\ HasImage(i)
         /\ ChannelCountOf(i) # Cardinality(DOMAIN sampleInfo.Channels))
            => docs[i] = NoFile

-----------------------------------------------------------------------------
(* C16: a failure of one image and the rest of the batch *)

\* C16: when the loop of a directory batch runs the tool on a file and the
\* tool run or the decoding of its output fails, the file is skipped: no
\* document is written for it and the loop goes on to the next file or ends
\* normally after the last one
C16_FailureSkipsFile ==
    [][ (/\ mode = "dir"
         /\ storePc = "resolved"
         /\ next <= Len(images)
         /\ IsError(MetadataOf(next))
         /\ spawned' # spawned)
            => /\ next' = next + 1
               /\ storePc' \in {"resolved", "done"}
               /\ docs' = docs
      ]_vars

-----------------------------------------------------------------------------
(* C17: "yes" on a file that is not YAML *)

\* C17: after a "yes" on an annotation file that cannot be parsed the run has
\* ended with a fatal error: no set was returned, the loop has handled no
\* file, no document is written, and the only subprocess that ever ran is the
\* read of the first image before the gate
C17_ParseErrorIsFatal ==
    (answer = "yes" /\ sampleFile # NoFile /\ YamlUnmarshalFails(sampleFile))
        => /\ storePc = "fatal"
           /\ sampleInfo = Nil
           /\ next = 1
           /\ spawned = 1
           /\ NoDocumentWritten

\* the operator replaced the created file by text that is not YAML and
\* answered "yes" in a directory of two readable images
C17_Witness ==
    /\ answer = "yes"
    /\ edited
    /\ ~fileExisted
    /\ sampleFile = Malformed
    /\ storePc = "fatal"
    /\ Len(images) = 2
    /\ images[2] = Meta(2)

-----------------------------------------------------------------------------
(* C18: the tool cannot be started *)

\* C18: when java cannot be started the run does nothing but end with a fatal
\* error: it never ends normally, no subprocess is started and no document is
\* written
C18_ToolPreflight ==
    ~toolAvailable
        => /\ storePc \in {"start", "fatal"}
           /\ spawned = 0
           /\ NoDocumentWritten

-----------------------------------------------------------------------------
(* C19: documents survive serialization *)

-----------------------------------------------------------------------------
(* C20: channel keys of the acquisition section *)

\* the acquisition section a written document parses to
AcquisitionSectionOf(doc) == YamlUnmarshalFinal(doc).AcquisitionMetadata

\* what the document is to hold for a channel of the image
ChannelInfoOf(channel) ==
    [NameID               |-> channel.ID \o " " \o channel.Name,
     EmissionWavelength   |-> channel.EmissionWavelength,
     ExcitationWavelength |-> channel.ExcitationWavelength]

\* C20: the acquisition section of the document of an image with k channels
\* has exactly the keys "Channel 1" .. "Channel k", never "Channel 0", and
\* "Channel j" holds the data of the j-th channel of the image
C20_ChannelKeys ==
    \A i \in DOMAIN docs :
        docs[i] # NoFile =>
            LET channels == MetadataOf(i).Images[1].Pixels.Channels
                section == AcquisitionSectionOf(docs[i]).Channels
            IN  /\ DOMAIN section = ChannelKeys(Len(channels))
                /\ Cardinality(DOMAIN section) = Len(channels)
                /\ "Channel 0" \notin DOMAIN section
                /\ Len(channels) >= 1 => "Channel 1" \in DOMAIN section
                /\ \A j \in 1..Len(channels) :
                      section[ChannelKey(j)] = ChannelInfoOf(channels[j])

\* the document of a three-channel image: "Channel 3" holds the third channel
C20_Witness ==
    \E i \in DOMAIN docs :
        /\ docs[i] # NoFile
        /\ images[i] = Meta(3)
        /\ DOMAIN AcquisitionSectionOf(docs[i]).Channels = {"Channel 1", "Channel 2", "Channel 3"}
        /\ AcquisitionSectionOf(docs[i]).Channels["Channel 3"].NameID = "Channel:0:2 dye3"
        /\ AcquisitionSectionOf(docs[i]).Channels["Channel 1"].EmissionWavelength = 510

-----------------------------------------------------------------------------
(* C21: channel entries against SizeC *)

\* C21: in every written document whose acquisition section has channel
\* entries, the number of entries equals the SizeC of its image dimensions
C21_ChannelsMatchSizeC ==
    \A i \in DOMAIN docs :
        docs[i] # NoFile =>
            LET section == AcquisitionSectionOf(docs[i])
            IN  DOMAIN section.Channels # {}
                    => Cardinality(DOMAIN section.Channels) = section.ImageDims.SizeC

-----------------------------------------------------------------------------
(* C22: a numeric attribute that is not a number *)

\* C22: a run of the tool whose output has a wavelength attribute that is not
\* a number, such as "488 nm", never ends the run with a fatal error
C22_BadNumberNonFatal ==
    [][ (/\ next <= Len(images)
         /\ toolAvailable
         /\ images[next] = UnitSuffixed
         /\ spawned' # spawned)
            => storePc' # "fatal"
      ]_vars

-----------------------------------------------------------------------------
(* C23: the walk over the node tree *)

\* the paths of all elements of a forest, below the given prefix
RECURSIVE PathsOf(_, _)
PathsOf(nodes, prefix) ==
    UNION { {Append(prefix, k)} \cup PathsOf(nodes[k].nodes, Append(prefix, k)) :
                k \in 1..Len(nodes) }

\* the element at a path
RECURSIVE NodeAt(_, _)
NodeAt(nodes, path) ==
    IF Len(path) = 1 THEN nodes[path[1]] ELSE NodeAt(nodes[path[1]].nodes, Tail(path))

\* p comes before q in document order: p is an ancestor of q, or p turns to
\* an earlier child where the two paths part
Before(p, q) ==
    \/ Len(p) < Len(q) /\ SubSeq(q, 1, Len(p)) = p
    \/ \E h \in 1..Len(p) :
          /\ h <= Len(q)
          /\ SubSeq(p, 1, h - 1) = SubSeq(q, 1, h - 1)
          /\ p[h] < q[h]

\* the walk handed every element below the root to processFunc exactly once,
\* parents before children and siblings in document order
VisitedInDocumentOrder ==
    /\ { visited[h] : h \in 1..Len(visited) } = PathsOf(rootNodes, <<>>)
    /\ Len(visited) = Cardinality(PathsOf(rootNodes, <<>>))
    /\ \A h, j \in 1..Len(visited) : h < j => Before(visited[h], visited[j])

\* the paths of the elements with a name
Named(name) == { p \in PathsOf(rootNodes, <<>>) : NodeAt(rootNodes, p).name = name }

\* C23: after GetMetadata returned without error, every element below the
\* root was visited exactly once in document order, the walk was not stopped
\* by a decoding that failed, and a typed record that was filled holds the
\* data of an element of its own name: instr that of an Instrument element,
\* img that of an Image element
C23_WalkAndDecode ==
    (walkPc = "returned" /\ walkErr = "nil")
        => /\ VisitedInDocumentOrder
           /\ instr # NoInstrument => instr.ID \in Named("Instrument")
           /\ img # NoImageRecord => img.ID \in Named("Image")

-----------------------------------------------------------------------------
(* C24: the set handed to the assembler *)

\* processImage runs the tool on the file at next in this step
RunsToolOnNext == next <= Len(images) /\ spawned' # spawned

\* C24: whenever processImage has metadata with an image and calls the
\* assembler, the annotation set it hands over is not nil and the run does
\* not crash
C24_AssemblerGetsSet ==
    [][ (Processing /\ RunsToolOnNext /\ HasImage(next))
            => (sampleInfo # Nil /\ storePc' # "panic")
      ]_vars

-----------------------------------------------------------------------------
(* C25: metadata without Image element *)

\* C25: a run of the tool that decodes to metadata without any Image never
\* crashes the program, neither before the gate nor in processImage
C25_NoImageNoCrash ==
    [][ (RunsToolOnNext /\ MetadataOf(next) = NoImage) => storePc' # "panic" ]_vars

-----------------------------------------------------------------------------
(* C26: the answers of the gate and its end *)

Yes == { <<"y">>, <<"y", "e", "s">> }
No == { <<"n">>, <<"n", "o">> }

\* C26: a turn of the gate returns true only on a line that trims to "y" or
\* "yes" and false only on one that trims to "n" or "no"; on any other line
\* it returns nothing and asks again; and once the input has ended the gate
\* returns instead of asking again
C26_GateAnswersAndEnds ==
    [][ gatePc = "prompt" =>
            LET input == TrimSpace(ReadString)
            IN  /\ (gatePc' = "returned" /\ confirmed' = "true") <=> input \in Yes
                /\ (gatePc' = "returned" /\ confirmed' = "false") <=> input \in No
                /\ (stdin # <<>> /\ input \notin Yes \cup No)
                      => (gatePc' = "prompt" /\ confirmed' = "none")
                /\ stdin = <<>> => gatePc' = "returned"
      ]_vars

====
